---- MODULE Spec2Model ----
(***************************************************************************)
(* Model of create-proyect.py: the interactive Django project starter.     *)
(*                                                                         *)
(* Text is modelled as a sequence of tokens.  A token is either a single   *)
(* character of user input ("s", "-", " ", ...) or a named fragment of a   *)
(* template / of the generated Django sources that the program searches    *)
(* for or writes as a unit ("INSTALLED_APPS", " = [", "]", ...).  Python's *)
(* str.replace, the "in" operator and the regular expression search are    *)
(* computed token by token.                                                *)
(***************************************************************************)
EXTENDS Integers, Sequences, FiniteSets, TLC

\* ------------------------------------------------------------------------
\* Bounds of the model
\* ------------------------------------------------------------------------
MaxRuns == 2        \* invocations of main() against the same working dir
MaxChunks == 3      \* fragments concatenated into an arbitrary file content

\* ------------------------------------------------------------------------
\* String primitives (Python str methods used by the program)
\* ------------------------------------------------------------------------
RECURSIVE LStrip(_)
LStrip(s) == IF s # <<>> /\ Head(s) = " " THEN LStrip(Tail(s)) ELSE s

RECURSIVE RStrip(_)
RStrip(s) ==
    IF s # <<>> /\ s[Len(s)] = " " THEN RStrip(SubSeq(s, 1, Len(s) - 1)) ELSE s

\* str.strip()
Strip(s) == RStrip(LStrip(s))

LowerChar(c) ==
    CASE c = "S" -> "s"
      [] c = "P" -> "p"
      [] OTHER -> c

\* str.lower()
Lower(s) == [i \in 1..Len(s) |-> LowerChar(s[i])]

StartsWith(s, p) == Len(p) <= Len(s) /\ SubSeq(s, 1, Len(p)) = p

\* p in s
Contains(s, p) == \E i \in 1..(Len(s) - Len(p) + 1) : SubSeq(s, i, i + Len(p) - 1) = p

\* s.replace(old, new): leftmost non-overlapping occurrences, old non-empty
RECURSIVE Replace(_, _, _)
Replace(s, old, new) ==
    IF Len(s) < Len(old) THEN s
    ELSE IF StartsWith(s, old)
         THEN new \o Replace(SubSeq(s, Len(old) + 1, Len(s)), old, new)
         ELSE <<Head(s)>> \o Replace(Tail(s), old, new)

\* x or default
OrDefault(x, d) == IF x = <<>> THEN d ELSE x

\* sep.join(list)
RECURSIVE Join(_, _)
Join(sep, list) ==
    IF list = <<>> THEN <<>>
    ELSE IF Len(list) = 1 THEN list[1]
    ELSE list[1] \o sep \o Join(sep, Tail(list))

\* ------------------------------------------------------------------------
\* Constants of the program
\* ------------------------------------------------------------------------
DEFAULT_PORT == <<"8", "0", "0", "0">>
DEFAULT_DB_PASSWORD == <<"password">>
DEFAULT_DB_CHOICE == <<"1">>

Requirements ==
    << <<"Django==5.1.5">>, <<"asgiref==3.8.1">>, <<"sqlparse==0.5.3">>,
       <<"pytz==2025.1">>, <<"django-extensions==3.2.3">>,
       <<"psycopg2-binary==2.9.9">>, <<"jsonschema==4.23.0">>,
       <<"requests==2.32.3">>, <<"pytest==8.3.4">>, <<"pytest-django==4.9.0">>,
       <<"gunicorn==21.2.0">> >>

\* ------------------------------------------------------------------------
\* prompt_project_details
\* ------------------------------------------------------------------------
\* "if not project_name" after .strip()
NameMissing_NoStrip(raw) == raw = <<>>

NameMissing(raw) == Strip(raw) = <<>>

\* slug generated from the name: lower(), spaces to hyphens
DeriveSlug(project_name) == Replace(Lower(project_name), <<" ">>, <<"-">>)

\* The dictionary returned by prompt_project_details for the raw answers in
MakeConfig(in) ==
    LET project_name == Strip(in.name)
        slug0 == Strip(in.slug)
        slug == IF slug0 = <<>> THEN DeriveSlug(project_name) ELSE slug0
        port == OrDefault(Strip(in.port), DEFAULT_PORT)
        db_choice == OrDefault(Strip(in.db_choice), DEFAULT_DB_CHOICE)
        pg == db_choice = <<"1">>
    IN [ project_name |-> project_name,
         slug |-> slug,
         port |-> port,
         db_type |-> IF pg THEN "postgresql" ELSE "sqlite",
         db_name |-> IF pg THEN OrDefault(Strip(in.db_name), slug) ELSE <<>>,
         db_user |-> IF pg THEN OrDefault(Strip(in.db_user), slug) ELSE <<>>,
         db_password |->
             IF pg THEN OrDefault(Strip(in.db_password), DEFAULT_DB_PASSWORD)
             ELSE <<>>,
         requirements |-> Requirements ]

\* ------------------------------------------------------------------------
\* Artifact templates
\* ------------------------------------------------------------------------
RequirementsTxt(config) == Join(<<"\n">>, config.requirements)

DockerCompose(config) ==
    IF config.db_type = "postgresql"
    THEN <<"compose_web_migrate_gunicorn">> \o config.slug
         \o <<".wsgi:application --bind 0.0.0.0:">> \o config.port
         \o <<"volumes_backend_static_ports">> \o config.port \o <<":">>
         \o config.port \o <<"DJANGO_SETTINGS_MODULE=">> \o config.slug
         \o <<".settings depends_on db shell DJANGO_SETTINGS_MODULE=">>
         \o config.slug \o <<".settings shell_plus db postgres:13">>
         \o <<"POSTGRES_DB: ">> \o config.db_name
         \o <<"POSTGRES_USER: ">> \o config.db_user
         \o <<"POSTGRES_PASSWORD: ">> \o config.db_password
         \o <<"volumes postgres_data">>
    ELSE <<"compose_web_gunicorn">> \o config.slug
         \o <<".wsgi:application --bind 0.0.0.0:">> \o config.port
         \o <<"volumes_app_ports">> \o config.port \o <<":">> \o config.port
         \o <<"quote_newline">>

Dockerfile(config) ==
    <<"FROM python:3.11 ... collectstatic", "EXPOSE ">> \o config.port
    \o <<"CMD gunicorn backend.">> \o config.slug
    \o <<".wsgi:application --bind 0.0.0.0:">> \o config.port \o <<"quote_bracket">>

Readme(config) ==
    <<"# ">> \o config.project_name \o <<"Nombre del Proyecto: ">>
    \o config.project_name \o <<"Slug: ">> \o config.slug
    \o <<"Puerto: ">> \o config.port \o <<"Base de Datos: ">> \o <<config.db_type>>

\* ------------------------------------------------------------------------
\* Files and the sources written by django-admin startproject
\* ------------------------------------------------------------------------
NoFile == [exists |-> FALSE, text |-> <<>>]

File(text) == [exists |-> TRUE, text |-> text]

Artifacts == {"requirements.txt", "docker-compose.yml", "Dockerfile", "README.md"}

Patches == {"settings", "wsgi", "asgi"}

FileNames == Artifacts \cup Patches

InstalledAppsList == <<"INSTALLED_APPS", " = [", "'django.contrib.*',", "]">>

WsgiApplicationLine(slug) ==
    <<"WSGI_APPLICATION = '">> \o slug \o <<".wsgi.application'">>

EngineSqlite == <<"        'ENGINE': 'django.db.backends.sqlite3',">>

NameSqlite == <<"        'NAME': BASE_DIR / 'db.sqlite3',">>

StaticUrl == <<"STATIC_URL = 'static/'">>

SetdefaultLine(slug) ==
    <<"os.environ.setdefault('DJANGO_SETTINGS_MODULE', '">> \o slug
    \o <<".settings')">>

\* settings.py as django-admin startproject <slug> writes it
DefaultSettings(slug) ==
    <<"BASE_DIR SECRET_KEY DEBUG ALLOWED_HOSTS">> \o InstalledAppsList
    \o <<"MIDDLEWARE", " = [", "'django.middleware.*',", "]", "ROOT_URLCONF TEMPLATES">>
    \o WsgiApplicationLine(slug) \o <<"DATABASES = { 'default': {">>
    \o EngineSqlite \o NameSqlite \o <<"} }", "AUTH_PASSWORD_VALIDATORS LANGUAGE_CODE">>
    \o StaticUrl \o <<"DEFAULT_AUTO_FIELD">>

\* wsgi.py and asgi.py as django-admin startproject <slug> writes them
DefaultWsgi(slug) ==
    <<"import os get_wsgi_application">> \o SetdefaultLine(slug)
    \o <<"application = get_wsgi_application()">>

DefaultAsgi(slug) ==
    <<"import os get_asgi_application">> \o SetdefaultLine(slug)
    \o <<"application = get_asgi_application()">>

\* ------------------------------------------------------------------------
\* update_settings_py
\* ------------------------------------------------------------------------
Outcome(file, result, raised, failed) ==
    [file |-> file, result |-> result, raised |-> raised, failed |-> failed]

\* re.compile(r"(INSTALLED_APPS = \[.*?\])", re.DOTALL).search(s).group(1),
\* <<>> when there is no match
InstalledAppsMatch_AnyName(s) ==
    LET starts == {i \in 1..Len(s) :
                     /\ s[i] = "INSTALLED_APPS"
                     /\ \E j \in (i + 1)..Len(s) : s[j] = "]"}
    IN IF starts = {} THEN <<>>
       ELSE LET i == CHOOSE x \in starts : \A y \in starts : x <= y
                j == CHOOSE x \in (i + 1)..Len(s) :
                        s[x] = "]" /\ \A y \in (i + 1)..(x - 1) : s[y] # "]"
            IN SubSeq(s, i, j)

InstalledAppsMatch(s) ==
    LET starts == {i \in 1..(Len(s) - 2) :
                     /\ s[i] = "INSTALLED_APPS"
                     /\ s[i + 1] = " = ["
                     /\ \E j \in (i + 2)..Len(s) : s[j] = "]"}
    IN IF starts = {} THEN <<>>
       ELSE LET i == CHOOSE x \in starts : \A y \in starts : x <= y
                j == CHOOSE x \in (i + 2)..Len(s) :
                        s[x] = "]" /\ \A y \in (i + 2)..(x - 1) : s[y] # "]"
            IN SubSeq(s, i, j)

NewInstalledApps ==
    <<"\nAPPS", " = [", "'django.contrib.*',", "]", "\n\nTHIRD_APPS", " = [",
      "django_extensions", "]", "INSTALLED_APPS", " = APPS + THIRD_APPS\n">>

PgParams(config) ==
    <<"        'NAME': '">> \o config.db_name
    \o <<"',\n        'USER': '">> \o config.db_user
    \o <<"',\n        'PASSWORD': '">> \o config.db_password
    \o <<"',\n        'HOST': 'db',\n        'PORT': 5432">>

\* "Configurar la base de datos"
ConfigureDatabase(config, s) ==
    IF config.db_type = "postgresql"
    THEN Replace(Replace(s, EngineSqlite,
                         <<"        'ENGINE': 'django.db.backends.postgresql',">>),
                 NameSqlite, PgParams(config))
    ELSE s

\* "Actualizar WSGI_APPLICATION"
UpdateWsgiApplication(config, s) ==
    Replace(s, WsgiApplicationLine(config.slug),
            <<"WSGI_APPLICATION = '", "backend.">> \o config.slug
            \o <<".wsgi.application'">>)

\* "Actualizar STATIC_ROOT"
AddStaticRoot(s) ==
    Replace(s, StaticUrl, StaticUrl \o <<"\nSTATIC_ROOT = '/app/static'">>)

\* The replacements made once the INSTALLED_APPS block has been found
PatchedSettings(config, s) ==
    AddStaticRoot(UpdateWsgiApplication(config,
        ConfigureDatabase(config,
            Replace(s, InstalledAppsMatch(s), NewInstalledApps))))

\* Result of writing text over file when the environment answers io
WriteBack(file, text, io, raises) ==
    CASE io = "write_fail" -> Outcome(file, "Failed", raises, "write")
      [] io = "write_trunc" -> Outcome(File(<<>>), "Failed", raises, "write")
      [] OTHER -> Outcome(File(text), "Applied", FALSE, "none")

UpdateSettingsPy_Raising(config, file, io) ==
    IF ~file.exists THEN Outcome(file, "SkippedMissingTarget", FALSE, "missing")
    ELSE IF io = "read_fail" THEN Outcome(file, "Failed", TRUE, "read")
    ELSE IF ~Contains(file.text, <<"INSTALLED_APPS">>)
         THEN Outcome(file, "SkippedMissingTarget", FALSE, "none")
    ELSE IF Contains(file.text, <<"django_extensions">>)
         THEN Outcome(file, "SkippedAlreadyApplied", FALSE, "none")
    ELSE IF InstalledAppsMatch(file.text) = <<>>
         THEN Outcome(file, "SkippedMissingTarget", FALSE, "none")
    ELSE WriteBack(file, PatchedSettings(config, file.text), io, TRUE)

UpdateSettingsPy_NoEarlyReturn(config, file, io) ==
    IF ~file.exists THEN Outcome(file, "SkippedMissingTarget", FALSE, "missing")
    ELSE IF io = "read_fail" THEN Outcome(file, "Failed", FALSE, "read")
    ELSE IF \/ ~Contains(file.text, <<"INSTALLED_APPS">>)
            \/ Contains(file.text, <<"django_extensions">>)
            \/ InstalledAppsMatch(file.text) = <<>>
         THEN LET rest == AddStaticRoot(UpdateWsgiApplication(config,
                              ConfigureDatabase(config, file.text)))
                  res == IF /\ Contains(file.text, <<"INSTALLED_APPS">>)
                            /\ Contains(file.text, <<"django_extensions">>)
                         THEN "SkippedAlreadyApplied" ELSE "SkippedMissingTarget"
              IN IF io \in {"write_fail", "write_trunc"}
                 THEN WriteBack(file, rest, io, FALSE)
                 ELSE Outcome(File(rest), res, FALSE, "none")
    ELSE WriteBack(file, PatchedSettings(config, file.text), io, FALSE)

\* update_settings_py: every message it prints is one result
\*   "... no existe", "... no contiene INSTALLED_APPS",
\*   "No se encontro el bloque ..."          -> SkippedMissingTarget
\*   "django_extensions ya esta ..."         -> SkippedAlreadyApplied
\*   "Error al leer/escribir ..."            -> Failed
\*   "Archivo settings.py actualizado ..."   -> Applied
UpdateSettingsPy(config, file, io) ==
    IF ~file.exists THEN Outcome(file, "SkippedMissingTarget", FALSE, "missing")
    ELSE IF io = "read_fail" THEN Outcome(file, "Failed", FALSE, "read")
    ELSE IF ~Contains(file.text, <<"INSTALLED_APPS">>)
         THEN Outcome(file, "SkippedMissingTarget", FALSE, "none")
    ELSE IF Contains(file.text, <<"django_extensions">>)
         THEN Outcome(file, "SkippedAlreadyApplied", FALSE, "none")
    ELSE IF InstalledAppsMatch(file.text) = <<>>
         THEN Outcome(file, "SkippedMissingTarget", FALSE, "none")
    ELSE WriteBack(file, PatchedSettings(config, file.text), io, FALSE)

\* ------------------------------------------------------------------------
\* update_wsgi_py, update_asgi_py
\* ------------------------------------------------------------------------
\* The replacement both entry point routines make
PrefixSettingsModule(config, s) ==
    Replace(s, SetdefaultLine(config.slug),
            <<"os.environ.setdefault('DJANGO_SETTINGS_MODULE', '", "backend.">>
            \o config.slug \o <<".settings')">>)

\* open(), read() and write() are not guarded: every error propagates
UpdateWsgiPy(config, file, io) ==
    IF ~file.exists THEN Outcome(file, "Failed", TRUE, "missing")
    ELSE IF io = "read_fail" THEN Outcome(file, "Failed", TRUE, "read")
    ELSE WriteBack(file, PrefixSettingsModule(config, file.text), io, TRUE)

UpdateAsgiPy(config, file, io) ==
    IF ~file.exists THEN Outcome(file, "Failed", TRUE, "missing")
    ELSE IF io = "read_fail" THEN Outcome(file, "Failed", TRUE, "read")
    ELSE WriteBack(file, PrefixSettingsModule(config, file.text), io, TRUE)

\* ------------------------------------------------------------------------
\* State
\* ------------------------------------------------------------------------
VARIABLES
    pc,          \* position of the running program
    runs,        \* invocations of the program started so far
    rawName,     \* the answer typed at the first prompt of this invocation
    config,      \* the dictionary returned by prompt_project_details
    folder,      \* name of the project folder on disk, <<>> before it exists
    dirs,        \* directories that exist under the working directory
    fs,          \* the files of the project folder
    result,      \* outcome of each patch routine in this invocation
    failure,     \* what each patch routine met: none, missing, read, write
    trace,       \* steps of main() executed in this invocation, in order
    gen,         \* outcome of django-admin in this invocation
    exit_status, \* exit status of this invocation, -1 while it runs
    start,       \* files and directories when this invocation started
    prevDone,    \* the preceding invocation reached the final summary
    prevConfig,  \* the configuration of the preceding invocation
    ioClean,     \* no read or write has failed in any invocation
    target,      \* patch routine under test (patch specification only)
    orig,        \* file before the first application
    first        \* file after the first application

vars == <<pc, runs, rawName, config, folder, dirs, fs, result, failure, trace,
          gen, exit_status, start, prevDone, prevConfig, ioClean, target,
          orig, first>>

patchVars == <<target, orig, first>>

\* ------------------------------------------------------------------------
\* Answers the user may type
\* ------------------------------------------------------------------------
NameInputs == {<<>>, <<" ">>, <<"S", " ", "P", " ">>}

SlugInputs == {<<>>, <<" ", "s", "p">>}

PortInputs == {<<>>, <<"9">>}

DbChoiceInputs == {<<>>, <<"1">>, <<"2">>, <<"x">>}

DbNameInputs == {<<>>, <<"n">>}

DbUserInputs == {<<>>}

DbPasswordInputs == {<<>>, <<"w">>}

Answers ==
    [name : NameInputs, slug : SlugInputs, port : PortInputs,
     db_choice : DbChoiceInputs, db_name : DbNameInputs,
     db_user : DbUserInputs, db_password : DbPasswordInputs]

\* What the environment may answer to the file operations of a patch
IoOutcomes == {"ok", "read_fail", "write_fail", "write_trunc"}

NoConfig ==
    [project_name |-> <<>>, slug |-> <<>>, port |-> <<>>, db_type |-> "sqlite",
     db_name |-> <<>>, db_user |-> <<>>, db_password |-> <<>>,
     requirements |-> Requirements]

EmptyFs == [f \in FileNames |-> NoFile]

NoResults == [p \in Patches |-> "NotAttempted"]

NoFailures == [p \in Patches |-> "none"]

\* ------------------------------------------------------------------------
\* main: the order of its calls
\* ------------------------------------------------------------------------
MainOrder ==
    <<"prompt", "folders", "django", "requirements.txt", "settings", "wsgi",
      "asgi", "docker-compose.yml", "Dockerfile", "README.md", "summary", "done">>

ArtifactsFirstOrder ==
    <<"prompt", "folders", "django", "requirements.txt", "docker-compose.yml",
      "Dockerfile", "README.md", "settings", "wsgi", "asgi", "summary", "done">>

IndexIn(seq, x) == CHOOSE i \in 1..Len(seq) : seq[i] = x

StepAfter_ArtifactsFirst(step) ==
    ArtifactsFirstOrder[IndexIn(ArtifactsFirstOrder, step) + 1]

\* The call main makes after step returned
StepAfter(step) == MainOrder[IndexIn(MainOrder, step) + 1]

Terminal == {"done", "exited", "crashed"}

Init ==
    /\ pc = "prompt"
    /\ runs = 1
    /\ rawName = <<>>
    /\ config = NoConfig
    /\ folder = <<>>
    /\ dirs = {}
    /\ fs = EmptyFs
    /\ result = NoResults
    /\ failure = NoFailures
    /\ trace = <<>>
    /\ gen = "none"
    /\ exit_status = -1
    /\ start = [fs |-> EmptyFs, dirs |-> {}]
    /\ prevDone = FALSE
    /\ prevConfig = NoConfig
    /\ ioClean = TRUE
    /\ target = "none"
    /\ orig = NoFile
    /\ first = NoFile

\* prompt_project_details.  The model follows the invocations that work on
\* one project folder: a later invocation is given the slug of that folder.
PromptProjectDetails ==
    /\ pc = "prompt"
    /\ \E in \in Answers :
        /\ rawName' = in.name
        /\ IF NameMissing(in.name)
           THEN /\ pc' = "exited"
                /\ exit_status' = 1
                /\ UNCHANGED config
           ELSE /\ folder = <<>> \/ MakeConfig(in).slug = folder
                /\ config' = MakeConfig(in)
                /\ pc' = StepAfter("prompt")
                /\ UNCHANGED exit_status
    /\ UNCHANGED <<runs, folder, dirs, fs, result, failure, trace, gen, start,
                   prevDone, prevConfig, ioClean, patchVars>>

\* create_folder_structure
CreateFolderStructure ==
    /\ pc = "folders"
    /\ folder' = config.slug
    /\ dirs' = dirs \cup {"root", "backend", "docs", "data"}
    /\ trace' = Append(trace, "folders")
    /\ pc' = StepAfter("folders")
    /\ UNCHANGED <<runs, rawName, config, fs, result, failure, gen,
                   exit_status, start, prevDone, prevConfig, ioClean, patchVars>>

PackageExists == fs["settings"].exists \/ fs["wsgi"].exists \/ fs["asgi"].exists

\* create_django_project.  django-admin either writes the package or fails
\* (it refuses to overlay an existing project); its status is not inspected.
CreateDjangoProject ==
    /\ pc = "django"
    /\ dirs' = dirs \cup {"backend"}
    /\ \E ok \in BOOLEAN :
        IF ok /\ ~PackageExists
        THEN /\ gen' = "ok"
             /\ fs' = [fs EXCEPT !["settings"] = File(DefaultSettings(config.slug)),
                                 !["wsgi"] = File(DefaultWsgi(config.slug)),
                                 !["asgi"] = File(DefaultAsgi(config.slug))]
        ELSE /\ gen' = "failed"
             /\ UNCHANGED fs
    /\ trace' = Append(trace, "django")
    /\ pc' = StepAfter("django")
    /\ UNCHANGED <<runs, rawName, config, folder, result, failure,
                   exit_status, start, prevDone, prevConfig, ioClean, patchVars>>

WriteArtifact(name, text) ==
    /\ pc = name
    /\ fs' = [fs EXCEPT ![name] = File(text)]
    /\ trace' = Append(trace, name)
    /\ pc' = StepAfter(name)
    /\ UNCHANGED <<runs, rawName, config, folder, dirs, result, failure, gen,
                   exit_status, start, prevDone, prevConfig, ioClean, patchVars>>

\* create_requirements_txt
CreateRequirementsTxt == WriteArtifact("requirements.txt", RequirementsTxt(config))

\* create_docker_compose
CreateDockerCompose == WriteArtifact("docker-compose.yml", DockerCompose(config))

\* create_dockerfile
CreateDockerfile == WriteArtifact("Dockerfile", Dockerfile(config))

\* create_readme
CreateReadme == WriteArtifact("README.md", Readme(config))

\* A patch routine called from main: an exception it raises ends the program
RunPatch(name, out) ==
    /\ fs' = [fs EXCEPT ![name] = out.file]
    /\ result' = [result EXCEPT ![name] = out.result]
    /\ failure' = [failure EXCEPT ![name] = out.failed]
    /\ ioClean' = (ioClean /\ out.failed \notin {"read", "write"})
    /\ trace' = Append(trace, name)
    /\ IF out.raised
       THEN pc' = "crashed" /\ exit_status' = 1
       ELSE pc' = StepAfter(name) /\ UNCHANGED exit_status
    /\ UNCHANGED <<runs, rawName, config, folder, dirs, gen, start, prevDone,
                   prevConfig, patchVars>>

UpdateSettings ==
    /\ pc = "settings"
    /\ \E io \in IoOutcomes : RunPatch("settings", UpdateSettingsPy(config, fs["settings"], io))

UpdateWsgi ==
    /\ pc = "wsgi"
    /\ \E io \in IoOutcomes : RunPatch("wsgi", UpdateWsgiPy(config, fs["wsgi"], io))

UpdateAsgi ==
    /\ pc = "asgi"
    /\ \E io \in IoOutcomes : RunPatch("asgi", UpdateAsgiPy(config, fs["asgi"], io))

\* The final print of main
Summary ==
    /\ pc = "summary"
    /\ trace' = Append(trace, "summary")
    /\ pc' = StepAfter("summary")
    /\ exit_status' = 0
    /\ UNCHANGED <<runs, rawName, config, folder, dirs, fs, result, failure,
                   gen, start, prevDone, prevConfig, ioClean, patchVars>>

\* The user starts the program again in the same working directory
RunAgain ==
    /\ pc \in Terminal
    /\ runs < MaxRuns
    /\ runs' = runs + 1
    /\ pc' = "prompt"
    /\ rawName' = <<>>
    /\ result' = NoResults
    /\ failure' = NoFailures
    /\ trace' = <<>>
    /\ gen' = "none"
    /\ exit_status' = -1
    /\ start' = [fs |-> fs, dirs |-> dirs]
    /\ prevDone' = (pc = "done")
    /\ prevConfig' = config
    /\ UNCHANGED <<config, folder, dirs, fs, ioClean, patchVars>>

Next ==
    \/ PromptProjectDetails
    \/ CreateFolderStructure
    \/ CreateDjangoProject
    \/ CreateRequirementsTxt
    \/ UpdateSettings
    \/ UpdateWsgi
    \/ UpdateAsgi
    \/ CreateDockerCompose
    \/ CreateDockerfile
    \/ CreateReadme
    \/ Summary
    \/ RunAgain

Spec == Init /\ [][Next]_vars

\* ------------------------------------------------------------------------
\* The patch routines applied twice to an arbitrary file
\* ------------------------------------------------------------------------
RECURSIVE Concats(_, _)
Concats(chunks, n) ==
    IF n = 0 THEN {<<>>}
    ELSE LET shorter == Concats(chunks, n - 1)
         IN shorter \cup {p \o c : p \in shorter, c \in chunks}

\* A slug made of the two ends of the line the entry point patch looks for
QuotingSlug ==
    <<".settings')", "os.environ.setdefault('DJANGO_SETTINGS_MODULE', '">>

PatchAnswers ==
    [name : {<<"S">>}, slug : {<<>>, QuotingSlug}, port : {<<>>},
     db_choice : {<<>>, <<"2">>}, db_name : {<<>>}, db_user : {<<>>},
     db_password : {<<>>}]

SettingsChunks(slug) ==
    { <<"INSTALLED_APPS">>, <<" = [">>, <<"]">>, <<"django_extensions">>,
      InstalledAppsList, EngineSqlite, NameSqlite, StaticUrl,
      WsgiApplicationLine(slug) }

EntryPointChunks(slug) ==
    { <<"import os">>, <<"os.environ.setdefault('DJANGO_SETTINGS_MODULE', '">>,
      <<".settings')">>, <<"backend.">>, slug, SetdefaultLine(slug) }

ChunksOf(name, slug) ==
    IF name = "settings" THEN SettingsChunks(slug) ELSE EntryPointChunks(slug)

InitPatch ==
    /\ pc = "first"
    /\ runs = 1
    /\ rawName = <<"S">>
    /\ \E in \in PatchAnswers : config = MakeConfig(in)
    /\ folder = config.slug
    /\ dirs = {"root", "backend", "docs", "data"}
    /\ target \in Patches
    /\ orig \in {NoFile} \cup {File(t) : t \in Concats(ChunksOf(target, config.slug), MaxChunks)}
    /\ fs = [EmptyFs EXCEPT ![target] = orig]
    /\ result = NoResults
    /\ failure = NoFailures
    /\ trace = <<>>
    /\ gen = "none"
    /\ exit_status = -1
    /\ start = [fs |-> fs, dirs |-> dirs]
    /\ prevDone = FALSE
    /\ prevConfig = NoConfig
    /\ ioClean = TRUE
    /\ first = NoFile

\* One application of a patch routine whose file operations succeed
Apply(name, out) ==
    /\ target = name
    /\ pc \in {"first", "second"}
    /\ fs' = [fs EXCEPT ![name] = out.file]
    /\ result' = [result EXCEPT ![name] = out.result]
    /\ failure' = [failure EXCEPT ![name] = out.failed]
    /\ trace' = Append(trace, name)
    /\ first' = IF pc = "first" THEN out.file ELSE first
    /\ pc' = IF pc = "first" THEN "second" ELSE "applied"
    /\ UNCHANGED <<runs, rawName, config, folder, dirs, gen, exit_status,
                   start, prevDone, prevConfig, ioClean, target, orig>>

ApplySettings == Apply("settings", UpdateSettingsPy(config, fs["settings"], "ok"))

ApplyWsgi == Apply("wsgi", UpdateWsgiPy(config, fs["wsgi"], "ok"))

ApplyAsgi == Apply("asgi", UpdateAsgiPy(config, fs["asgi"], "ok"))

NextPatch == ApplySettings \/ ApplyWsgi \/ ApplyAsgi

SpecPatch == InitPatch /\ [][NextPatch]_vars

\* ------------------------------------------------------------------------
\* Properties
\* ------------------------------------------------------------------------
InTrace(x) == \E i \in 1..Len(trace) : trace[i] = x

Before(x, y) == \E i, j \in 1..Len(trace) : i < j /\ trace[i] = x /\ trace[j] = y

LastStep == IF trace = <<>> THEN "none" ELSE trace[Len(trace)]

AllSteps ==
    {"folders", "django", "requirements.txt", "settings", "wsgi", "asgi",
     "docker-compose.yml", "Dockerfile", "README.md", "summary"}

Skipped == {"SkippedMissingTarget", "SkippedAlreadyApplied"}

\* The text holds a bracketed list bound to the name INSTALLED_APPS
HasListPattern(s) ==
    \E i, j \in 1..Len(s) :
        i + 2 <= j /\ s[i] = "INSTALLED_APPS" /\ s[i + 1] = " = [" /\ s[j] = "]"

\* The tokens of s between the first open and the next close after it
Between(s, open, close) ==
    IF \E i \in 1..Len(s) : s[i] = open /\ \E j \in (i + 1)..Len(s) : s[j] = close
    THEN LET i == CHOOSE x \in 1..Len(s) :
                    /\ s[x] = open
                    /\ \E j \in (x + 1)..Len(s) : s[j] = close
                    /\ \A y \in 1..(x - 1) : s[y] # open
             j == CHOOSE x \in (i + 1)..Len(s) :
                    s[x] = close /\ \A y \in (i + 1)..(x - 1) : s[y] # close
         IN <<"value">> \o SubSeq(s, i + 1, j - 1)
    ELSE <<"absent">>

\* Database name, user and password as settings.py states them
SettingsCredentials(s) ==
    << Between(s, "        'NAME': '", "',\n        'USER': '"),
       Between(s, "',\n        'USER': '", "',\n        'PASSWORD': '"),
       Between(s, "',\n        'PASSWORD': '",
               "',\n        'HOST': 'db',\n        'PORT': 5432") >>

\* POSTGRES_DB, POSTGRES_USER and POSTGRES_PASSWORD of docker-compose.yml
ComposeCredentials(s) ==
    << Between(s, "POSTGRES_DB: ", "POSTGRES_USER: "),
       Between(s, "POSTGRES_USER: ", "POSTGRES_PASSWORD: "),
       Between(s, "POSTGRES_PASSWORD: ", "volumes postgres_data") >>

\* C1 (as stated): once a patch routine has been applied twice to a file, the
\* file has exactly the content it had after the first application.
C1_Idempotent == pc = "applied" => fs[target] = first

\* C2 (as stated): when main is run again with the same configuration on the
\* folder a complete run produced, every patch reports AlreadyApplied and
\* every file has the content it had when the second run started.
C2_RerunAllAlreadyApplied ==
    (pc = "done" /\ prevDone /\ prevConfig = config)
        => /\ \A p \in Patches : result[p] = "SkippedAlreadyApplied"
           /\ fs = start.fs

\* C3 (as stated): a patch whose target file is missing returns
\* SkippedMissingTarget, the run is not aborted and every remaining step is
\* still attempted.
C3_MissingTargetSkipped ==
    \A p \in Patches :
        failure[p] = "missing"
            => /\ result[p] = "SkippedMissingTarget"
               /\ pc # "crashed"
               /\ (pc \in Terminal => \A st \in AllSteps : InTrace(st))

C5_GeneratorFailureIgnored ==
    (gen = "failed" /\ ~PackageExists /\ pc \in Terminal)
        => /\ pc = "done"
           /\ \A a \in Artifacts : InTrace(a) /\ fs[a].exists

C7_MissingNameExits ==
    (pc # "prompt" /\ Strip(rawName) = <<>>)
        => /\ pc = "exited"
           /\ exit_status = 1
           /\ trace = <<>>
           /\ gen = "none"
           /\ fs = start.fs
           /\ dirs = start.dirs

C7_Witness == pc = "exited" /\ rawName = <<" ">> /\ exit_status = 1

\* C8 (as stated): update_settings_py on a settings file without the
\* bracketed INSTALLED_APPS list returns SkippedMissingTarget and leaves the
\* file unchanged.
C8_NoPatternSkippedMissing ==
    (target = "settings" /\ pc = "second" /\ orig.exists
     /\ ~HasListPattern(orig.text))
        => result["settings"] = "SkippedMissingTarget" /\ fs["settings"] = orig

\* C8 (amended): update_settings_py on a settings file without the bracketed
\* INSTALLED_APPS list leaves the file unchanged; it returns
\* SkippedAlreadyApplied when the file names both INSTALLED_APPS and
\* django_extensions, and SkippedMissingTarget otherwise.
C8_NoPatternUnchanged ==
    (target = "settings" /\ pc = "second" /\ orig.exists
     /\ ~HasListPattern(orig.text))
        => /\ fs["settings"] = orig
           /\ result["settings"] =
                IF /\ Contains(orig.text, <<"INSTALLED_APPS">>)
                   /\ Contains(orig.text, <<"django_extensions">>)
                THEN "SkippedAlreadyApplied"
                ELSE "SkippedMissingTarget"

C8_Witness ==
    /\ target = "settings"
    /\ pc = "second"
    /\ orig.exists
    /\ ~HasListPattern(orig.text)
    /\ Contains(orig.text, <<"INSTALLED_APPS">>)
    /\ Contains(orig.text, <<"]">>)
    /\ result["settings"] = "SkippedMissingTarget"
    /\ fs["settings"] = orig

\* C9 (as stated): the four artifacts are written before the first patch is
\* attempted, so all four are on disk once a patch has been attempted.
C9_ArtifactsBeforePatches ==
    \A p \in Patches :
        InTrace(p) => \A a \in Artifacts : Before(a, p) /\ fs[a].exists

\* C9 (amended): requirements.txt is written before the first patch;
\* docker-compose.yml, Dockerfile and README.md are written only after the
\* three patches, so a run that a patch ends has written requirements.txt
\* and none of the other three.
C9_OnlyRequirementsBeforePatches ==
    /\ \A p \in Patches :
         InTrace(p) => Before("requirements.txt", p) /\ fs["requirements.txt"].exists
    /\ \A a \in Artifacts \ {"requirements.txt"} :
         InTrace(a) => \A p \in Patches : Before(p, a)
    /\ pc = "crashed"
         => /\ fs["requirements.txt"] = File(RequirementsTxt(config))
            /\ \A a \in Artifacts \ {"requirements.txt"} :
                 ~InTrace(a) /\ fs[a] = start.fs[a]

C9_Witness ==
    /\ pc = "crashed"
    /\ LastStep = "asgi"
    /\ result["settings"] = "Applied"
    /\ fs["requirements.txt"].exists
    /\ ~fs["docker-compose.yml"].exists
    /\ ~fs["Dockerfile"].exists
    /\ ~fs["README.md"].exists

\* C10 (as stated): after completed runs against one slug with postgresql
\* (no read or write having failed), the database name, user and password in
\* the settings file equal POSTGRES_DB, POSTGRES_USER and POSTGRES_PASSWORD
\* of docker-compose.yml.
C10_CredentialsAgree ==
    (pc = "done" /\ config.db_type = "postgresql" /\ ioClean)
        => SettingsCredentials(fs["settings"].text)
             = ComposeCredentials(fs["docker-compose.yml"].text)

====
